---- MODULE Spec2Model ----
(***************************************************************************)
(* A model of ngraph's VisualizeTree pass (src/ngraph/pass/visualize_tree  *)
(* .cpp): the per-function height maps, the jump distance of an argument   *)
(* edge, and the lines the pass appends to its dot output; and of the      *)
(* PriorBoxClustered op's type inference and duplication; of the          *)
(* topological sort the pass calls; and of the orchestrator that runs a   *)
(* pipeline of passes (src/ngraph/pass/pass.hpp) to a fixed point.        *)
(***************************************************************************)
EXTENDS Integers, Sequences, FiniteSets, TLC

\* ------------------------------------------------------------------ bounds

\* Number of nodes of the exhaustively enumerated small graphs.
MaxNodes == 4
\* Number of nodes of the long-chain graphs (one skip edge over the chain).
ChainLen == 24
\* How many times run_on_module is called on the same pass instance.
MaxRuns == 2

\* const int max_jump_distance = 20;
max_jump_distance == 20

\* ------------------------------------------------------------------ state

VARIABLES
    args,                    \* node -> its argument nodes, in order (Node::get_arguments)
    kind,                    \* node -> description(): "Parameter", "Constant", "Op", "Result"
    out_type,                \* node -> element type and shape of its output
    functions,               \* the module: a sequence of functions [results, parameters]
    env,                     \* which of the label_edge environment variables is set
    pc,                      \* position inside run_on_module
    fi,                      \* index of the function the for loop is at
    height_maps,             \* unordered_map<Node*, HeightMap> of the current function
    processed,               \* nodes of the reversed topological order already handled
    visited,                 \* nodes traverse_nodes has already called the lambda on
    fake_node_ctr,           \* size_t fake_node_ctr
    m_ss,                    \* the pass's accumulated output, a sequence of lines
    m_nodes_with_attributes, \* nodes whose attribute line was already emitted
    dot_file,                \* what render() last wrote
    ret,                     \* what the last call of run_on_module returned
    runs,                    \* number of completed calls
    edge_log,                \* per visited argument edge: jump distance and emitted lines
    run_start,               \* length of m_ss when each call started
    op_pc,                   \* node construction: "off", "new", "built", "copied"
    op_req,                  \* the constructor call: kind, argument nodes, attributes
    op_node,                 \* the node the constructor call produced, or its failure
    op_copy,                 \* what copy_with_new_args on op_node produced
    sort_pc,                 \* topological_sort: "off", "idle", "sorting", "returned", "fatal", "analysed"
    sort_input,              \* the node list handed to topological_sort, in insertion order
    result_list,             \* the order topological_sort has built so far
    sort_results,            \* the orders its completed calls returned
    pipeline,                \* the orchestrator's configured passes, in order
    mgr_state,               \* "off", "Idle", "Running", "Done", "Aborted"
    mgr_i,                   \* index of the running pass, from 0
    mgr_changed,             \* a pass of this orchestrator run returned true
    mgr_log,                 \* indices of the passes this orchestrator run started
    mgr_run,                 \* which orchestrator run of the fixed-point loop this is
    work                     \* rewrites the graph still admits

vars == <<args, kind, out_type, functions, env, pc, fi, height_maps, processed,
          visited, fake_node_ctr, m_ss, m_nodes_with_attributes, dot_file, ret,
          runs, edge_log, run_start, op_pc, op_req, op_node, op_copy,
          sort_pc, sort_input, result_list, sort_results,
          pipeline, mgr_state, mgr_i, mgr_changed, mgr_log, mgr_run, work>>

op_vars == <<op_pc, op_req, op_node, op_copy>>

pass_vars == <<pc, fi, height_maps, processed, visited, fake_node_ctr, m_ss,
               m_nodes_with_attributes, dot_file, ret, runs, edge_log, run_start>>

graph_vars == <<args, kind, out_type, functions, env>>

sort_vars == <<sort_pc, sort_input, result_list, sort_results>>

mgr_vars == <<pipeline, mgr_state, mgr_i, mgr_changed, mgr_log, mgr_run, work>>

\* ------------------------------------------------------------------ helpers

Max2(a, b) == IF a >= b THEN a ELSE b

Abs(x) == IF x < 0 THEN 0 - x ELSE x

SetMax(S) == CHOOSE x \in S : \A y \in S : y <= x

SetMin(S) == CHOOSE x \in S : \A y \in S : x <= y

\* The elements of a set of integers as an ascending sequence.
RECURSIVE AscSeq(_)
AscSeq(S) == IF S = {} THEN <<>> ELSE <<SetMin(S)>> \o AscSeq(S \ {SetMin(S)})

EmptyMap == <<>>

Range(seq) == {seq[i] : i \in DOMAIN seq}

\* ------------------------------------------------------------------ graph

NodesOf(a) == DOMAIN a

\* The inputs (user node, input index) reading node n: output.get_target_inputs().
TargetInputs(a, n) ==
    UNION {{<<m, i>> : i \in {j \in DOMAIN a[m] : a[m][j] = n}} : m \in NodesOf(a)}

Users(a, n) == {p[1] : p \in TargetInputs(a, n)}

ArgsOf(a, S) == UNION {{a[m][i] : i \in DOMAIN a[m]} : m \in S}

\* Nodes reachable from S along argument edges, S included.
RECURSIVE ArgClosure(_, _)
ArgClosure(a, S) == LET T == S \cup ArgsOf(a, S)
                    IN IF T = S THEN S ELSE ArgClosure(a, T)

\* Function::get_ops(): every node reached from the results and the parameters.
get_ops(a, f) == ArgClosure(a, f.results \cup f.parameters)

\* ------------------------------------------------------------------ inputs

Results(g) == {n \in DOMAIN g.kind : g.kind[n] = "Result"}

Parameters(g) == {n \in DOMAIN g.kind : g.kind[n] = "Parameter"}

\* The kinds a node with the argument set S can have: Parameter and Constant
\* take no argument, Result takes exactly one.
KindsFor(k, S) ==
    IF S = {} THEN (IF k = 1 THEN {"Parameter"} ELSE {"Parameter", "Constant"})
    ELSE IF Cardinality(S) = 1 THEN {"Op", "Result"}
    ELSE {"Op"}

\* Every graph of k nodes built in construction order: a node's arguments exist
\* before it (so the graph is acyclic), and a Result is nobody's argument.
RECURSIVE SmallGraphs(_)
SmallGraphs(k) ==
    IF k = 0 THEN {[args |-> <<>>, kind |-> <<>>]}
    ELSE UNION {UNION {{[args |-> Append(g.args, AscSeq(S)),
                         kind |-> Append(g.kind, kd)] : kd \in KindsFor(k, S)}
                       : S \in SUBSET ((1..(k - 1)) \ Results(g))}
                : g \in SmallGraphs(k - 1)}

\* A chain 1 -> 2 -> ... -> ChainLen (a Parameter, Ops, a Result) with one skip
\* edge i -> j; with dup, node 2 reads node 1 twice.
ChainGraph(i, j, dup) ==
    [args |-> [k \in 1..ChainLen |->
                  IF k = 1 THEN <<>>
                  ELSE IF k = j THEN <<k - 1, i>>
                  ELSE IF k = 2 /\ dup THEN <<1, 1>>
                  ELSE <<k - 1>>],
     kind |-> [k \in 1..ChainLen |->
                  IF k = 1 THEN "Parameter"
                  ELSE IF k = ChainLen THEN "Result" ELSE "Op"]]

ChainGraphs == {ChainGraph(i, j, dup) :
                   i \in 1..3, j \in (ChainLen - 3)..(ChainLen - 1), dup \in BOOLEAN}

\* A function has at least one result.
Graphs == {g \in SmallGraphs(MaxNodes) : Results(g) # {}} \cup ChainGraphs

\* The modules over a graph: one function holding every result and parameter,
\* or, when the first result's subgraph shares no node with the others', two.
ModulesOf(g) ==
    LET R == Results(g)
        P == Parameters(g)
        r1 == SetMin(R)
        c1 == ArgClosure(g.args, {r1})
        c2 == ArgClosure(g.args, R \ {r1})
    IN {<<[results |-> R, parameters |-> P]>>}
       \cup (IF Cardinality(R) >= 2 /\ c1 \cap c2 = {}
             THEN {<<[results |-> {r1}, parameters |-> P \cap c1],
                     [results |-> R \ {r1}, parameters |-> P \ c1]>>}
             ELSE {})

OutTypeOf(kd) == IF kd \in {"Parameter", "Constant"}
                 THEN [et |-> "i64", shape |-> <<2>>]
                 ELSE [et |-> "f32", shape |-> <<2>>]

\* NGRAPH_VISUALIZE_EDGE_LABELS set, else NGRAPH_VISUALIZE_EDGE_JUMP_DISTANCE
\* set, else neither.
EnvSettings == {"none", "labels", "jump"}

\* ------------------------------------------------------------------ HeightMap

\* Mutant: the algorithm comment's {r -> 1} instead of the constructor's 0.
HeightMap_one(initials) == [n \in initials |-> 1]

\* HeightMap(std::set<Node*> initials)
HeightMap(initials) == [n \in initials |-> 0]

\* m_heights[k]: operator[] inserts 0 for a missing key.
HeightAt(self, k) == IF k \in DOMAIN self THEN self[k] ELSE 0

\* Mutant: the user's height is taken over without the + 1.
absorb_noinc(self, other) ==
    [k \in DOMAIN self \cup DOMAIN other |->
        IF k \in DOMAIN other
        THEN Max2(HeightAt(self, k), other[k])
        ELSE self[k]]

\* Mutant: the user's height replaces the recorded one, without std::max.
absorb_overwrite(self, other) ==
    [k \in DOMAIN self \cup DOMAIN other |->
        IF k \in DOMAIN other THEN other[k] + 1 ELSE self[k]]

\* void absorb(const HeightMap& other)
absorb(self, other) ==
    [k \in DOMAIN self \cup DOMAIN other |->
        IF k \in DOMAIN other
        THEN Max2(HeightAt(self, k), other[k] + 1)
        ELSE self[k]]

\* Mutant: the difference without std::abs.
JumpStep_noabs(result, target_height, v) == Max2(result, target_height - v)

\* result = std::max(result, std::abs(target.m_heights.at(k) - v));
JumpStep(result, target_height, v) == Max2(result, Abs(target_height - v))

\* int64_t max_jump_to(const HeightMap& target): the loop over m_heights, with
\* result carried from key to key.
RECURSIVE MaxJumpLoop(_, _, _, _)
MaxJumpLoop(self, target, keys, result) ==
    IF keys = {} THEN result
    ELSE LET k == CHOOSE x \in keys : TRUE
             v == self[k]
             r == IF k \in DOMAIN target
                  THEN JumpStep(result, target[k], v)
                  ELSE result
         IN MaxJumpLoop(self, target, keys \ {k}, r)

max_jump_to(self, target) == MaxJumpLoop(self, target, DOMAIN self, 0)

\* height_maps[n]: operator[] inserts an empty HeightMap for a missing node.
MapAt(hm, n) == IF n \in DOMAIN hm THEN hm[n] ELSE EmptyMap

WithKey(hm, n) == IF n \in DOMAIN hm THEN hm ELSE hm @@ (n :> EmptyMap)

\* The two inner loops of the height pass for one node: absorb the map of the
\* node of every target input of every output.
RECURSIVE AbsorbTargets(_, _, _)
AbsorbTargets(hm, node, targets) ==
    IF targets = {} THEN hm
    ELSE LET p == CHOOSE x \in targets : TRUE
             target_node == p[1]
             h1 == WithKey(WithKey(hm, node), target_node)
             h2 == [h1 EXCEPT ![node] = absorb(h1[node], h1[target_node])]
         IN AbsorbTargets(h2, node, targets \ {p})

\* ------------------------------------------------------------------ output lines

NoName == <<"none", 0>>

NoLabel == <<"none", 0, 0>>

\* node->get_name()
get_name(n) == <<"node", n>>

\* "CLONE_" / "RECV_" / "SEND_" + to_string(fake_node_ctr)
FakeName(prefix, ctr) == <<prefix, ctr>>

Line(t, src, dst, label) == [t |-> t, src |-> src, dst |-> dst, label |-> label]

\* static std::string label_edge(src, dst, arg_index, jump_distance); no
\* GetOutputElement is among the modelled kinds, so output stays 0.
label_edge(e, src, dst, arg_index, jump_distance) ==
    IF e = "labels" THEN <<"io", 0, arg_index>>
    ELSE IF e = "jump" /\ jump_distance > 1 THEN <<"jump", jump_distance, 0>>
    ELSE NoLabel

\* node->is_output(): true of a Result only.
is_output(kd, n) == kd[n] = "Result"

\* string get_attributes(shared_ptr<Node> node): the node's attribute line.
get_attributes(kd, n) ==
    Line("attr", get_name(n), NoName,
         <<IF is_output(kd, n) THEN "crimson" ELSE "black", 0, 0>>)

\* string add_attributes(shared_ptr<Node> node): the lines it returns ...
add_attributes(kd, nwa, n) == IF n \notin nwa THEN <<get_attributes(kd, n)>> ELSE <<>>

\* ... and what it leaves in m_nodes_with_attributes.
add_attributes_seen(nwa, n) == nwa \cup {n}

\* Mutant: an edge of exactly max_jump_distance is cut too.
is_long_jump_ge(jump_distance) == jump_distance >= max_jump_distance

\* else if (jump_distance > max_jump_distance)
is_long_jump(jump_distance) == jump_distance > max_jump_distance

\* if (arg->description() == "Constant" || arg->description() == "Parameter")
is_floated(kd, arg) == kd[arg] = "Constant" \/ kd[arg] = "Parameter"

\* The body of the loop over node->get_arguments() for the argument at
\* position i (arg_index = i - 1): the lines it appends to m_ss.
EdgeLines(kd, e, hm, nwa, ctr, node, arg, i) ==
    LET jump_distance == max_jump_to(MapAt(hm, arg), MapAt(hm, node))
        lbl == label_edge(e, arg, node, i - 1, jump_distance)
    IN IF is_floated(kd, arg)
       THEN << Line("fake", FakeName("CLONE", ctr), get_name(arg),
                    <<IF kd[arg] = "Parameter" THEN "blue" ELSE "black", 0, 0>>),
               Line("edge", FakeName("CLONE", ctr), get_name(node), lbl) >>
       ELSE IF is_long_jump(jump_distance)
       THEN add_attributes(kd, nwa, arg)
            \o add_attributes(kd, add_attributes_seen(nwa, arg), node)
            \o << Line("fake", FakeName("RECV", ctr), get_name(arg), NoLabel),
                  Line("fake", FakeName("SEND", ctr), get_name(node), NoLabel),
                  Line("edge", get_name(arg), FakeName("SEND", ctr), lbl),
                  Line("edge", FakeName("RECV", ctr), get_name(node), lbl) >>
       ELSE add_attributes(kd, nwa, arg)
            \o add_attributes(kd, add_attributes_seen(nwa, arg), node)
            \o << Line("edge", get_name(arg), get_name(node), lbl) >>

\* The lambda traverse_nodes calls on node: st carries m_ss, the attribute
\* set, fake_node_ctr and the edge log from one argument to the next.
RECURSIVE VisitArgs(_, _, _, _, _, _, _)
VisitArgs(a, kd, e, hm, node, i, st) ==
    IF i > Len(a[node]) THEN st
    ELSE LET arg == a[node][i]
             floated == is_floated(kd, arg)
             jd == max_jump_to(MapAt(hm, arg), MapAt(hm, node))
             lines == EdgeLines(kd, e, hm, st.nwa, st.ctr, node, arg, i)
         IN VisitArgs(a, kd, e, hm, node, i + 1,
               [ss  |-> st.ss \o lines,
                nwa |-> IF floated THEN st.nwa ELSE st.nwa \cup {arg, node},
                ctr |-> IF floated \/ is_long_jump(jd)
                        THEN st.ctr + 1 ELSE st.ctr,
                log |-> Append(st.log, [src |-> arg, dst |-> node,
                                        arg_index |-> i - 1,
                                        jump_distance |-> jd,
                                        ctr |-> st.ctr,
                                        lines |-> lines])])

\* ------------------------------------------------------------------ ops

\* Largest value held by a constant layer shape.
MaxDim == 4
\* Largest num_priors, and longest widths / heights vector.
MaxPriors == 5

\* PartialShape: rank dynamic, or one entry per dimension, -1 a dynamic one.
PartialShape_dynamic == [rank_static |-> FALSE, dims |-> <<>>]

StaticRank(dims) == [rank_static |-> TRUE, dims |-> dims]

\* Rank::compatible: either rank is dynamic, or they are equal.
rank_compatible(p, q) ==
    \/ ~p.rank_static
    \/ ~q.rank_static
    \/ Len(p.dims) = Len(q.dims)

\* element::Type::compatible: either type is dynamic, or they are the same.
et_compatible(a, b) == a = "dynamic" \/ b = "dynamic" \/ a = b

\* shape_size: the product of the dimensions, 1 for a scalar.
RECURSIVE shape_size(_)
shape_size(shape) ==
    IF shape = <<>> THEN 1 ELSE Head(shape) * shape_size(Tail(shape))

\* An argument node with one output: a Constant (static type and shape, and
\* its int64 data) or any other node.
ArgNode(is_const, et, pshape, data) ==
    [is_const |-> is_const, et |-> et, pshape |-> pshape, data |-> data]

NonConstArgs(shapes) ==
    {ArgNode(FALSE, et, ps, <<>>) : et \in {"i64", "f32", "dynamic"}, ps \in shapes}

LayerShapeArgs ==
    NonConstArgs({PartialShape_dynamic, StaticRank(<<2>>), StaticRank(<<-1>>),
                  StaticRank(<<1, 2>>)})
    \cup {ArgNode(TRUE, "i64", StaticRank(<<2>>), <<h, w>>) :
             h \in 0..MaxDim, w \in 0..MaxDim}
    \cup {ArgNode(TRUE, "i64", StaticRank(<<1, 2>>), <<MaxDim, 1>>),
          ArgNode(TRUE, "i64", StaticRank(<<3>>), <<1, 1, 1>>),
          ArgNode(TRUE, "i64", StaticRank(<<>>), <<1>>),
          ArgNode(TRUE, "f32", StaticRank(<<2>>), <<1, 1>>)}

ImageShapeArgs ==
    NonConstArgs({PartialShape_dynamic, StaticRank(<<2>>), StaticRank(<<1, 2>>)})
    \cup {ArgNode(TRUE, "i64", StaticRank(<<2>>), <<1, 1>>)}

\* A vector<float> of length n; only its size is ever read.
Floats(n, base) == [i \in 1..n |-> base + i]

PriorBoxAttrs(num_priors, widths, heights) ==
    [m_num_priors |-> num_priors, m_widths |-> widths, m_heights |-> heights,
     m_clip |-> TRUE, m_step_widths |-> 1, m_step_heights |-> 2, m_offset |-> 0,
     m_variances |-> <<1, 2>>]

NoOutput == [set |-> FALSE, et |-> "none", pshape |-> PartialShape_dynamic]

\* set_output_type(0, et, pshape)
set_output_type(et, pshape) == [set |-> TRUE, et |-> et, pshape |-> pshape]

\* The outcome of a validation: the check that failed (0: none), output 0 and
\* the inputs marked relevant to shape.
Validation(failed, output, relevant) ==
    [failed |-> failed, output |-> output, relevant |-> relevant]

\* Mutant: the factor 4 (the four coordinates of a box) is left out.
PriorBoxShape_no4(layer_shape, num_priors) ==
    [rank_static |-> TRUE, dims |-> <<2, layer_shape[1] * layer_shape[2] * num_priors>>]

\* The output shape of the Constant branch: Shape{2, 4 * layer_shape[0] *
\* layer_shape[1] * m_num_priors}, size_t arithmetic (64 bits: no value within
\* the bounds of this model comes near wrapping).
PriorBoxShape(layer_shape, num_priors) ==
    StaticRank(<<2, 4 * layer_shape[1] * layer_shape[2] * num_priors>>)

\* Mutant: the output of the non-Constant branch keeps rank 2.
PriorBoxDynamicOutput_rank2 == set_output_type("f32", StaticRank(<<-1, -1>>))

\* set_output_type(0, element::f32, PartialShape::dynamic());
PriorBoxDynamicOutput == set_output_type("f32", PartialShape_dynamic)

\* Mutant: the heights check reads m_widths again.
heights_match_widths(attrs) == Len(attrs.m_widths) = attrs.m_num_priors

\* m_heights.size() == m_num_priors
heights_match(attrs) == Len(attrs.m_heights) = attrs.m_num_priors

\* void op::PriorBoxClustered::validate_and_infer_types()
PriorBoxClustered_validate_and_infer_types(a, attrs) ==
    IF ~et_compatible(a[1].et, "i64") THEN Validation(1, NoOutput, {})
    ELSE IF ~et_compatible(a[2].et, "i64") THEN Validation(2, NoOutput, {})
    ELSE IF ~rank_compatible(a[1].pshape, a[2].pshape) THEN Validation(3, NoOutput, {})
    ELSE IF Len(attrs.m_widths) # attrs.m_num_priors THEN Validation(4, NoOutput, {})
    ELSE IF ~heights_match(attrs) THEN Validation(5, NoOutput, {})
    ELSE IF a[1].is_const
         THEN IF shape_size(a[1].pshape.dims) # 2 THEN Validation(6, NoOutput, {0})
              ELSE Validation(0, set_output_type("f32",
                                     PriorBoxShape(a[1].data, attrs.m_num_priors)), {0})
         ELSE Validation(0, PriorBoxDynamicOutput, {0})

\* ShapeOf's inference: an i64 vector with one entry per dimension of the input.
ShapeOf_validate_and_infer_types(a, attrs) ==
    Validation(0, set_output_type("i64",
                     IF a[1].pshape.rank_static
                     THEN StaticRank(<<Len(a[1].pshape.dims)>>)
                     ELSE StaticRank(<<-1>>)), {0})

\* The dimensions of dims whose 0-based position is not in axes.
RECURSIVE DropAxes(_, _, _)
DropAxes(dims, axes, i) ==
    IF dims = <<>> THEN <<>>
    ELSE (IF i \in axes THEN <<>> ELSE <<Head(dims)>>) \o DropAxes(Tail(dims), axes, i + 1)

\* Squeeze's inference: the input's type, its shape without the axes of m_axes.
Squeeze_validate_and_infer_types(a, attrs) ==
    Validation(0, set_output_type(a[1].et,
                     IF a[1].pshape.rank_static
                     THEN StaticRank(DropAxes(a[1].pshape.dims, attrs.m_axes, 0))
                     ELSE PartialShape_dynamic), {})

validate_and_infer_types(k, a, attrs) ==
    IF k = "PriorBoxClustered" THEN PriorBoxClustered_validate_and_infer_types(a, attrs)
    ELSE IF k = "ShapeOf" THEN ShapeOf_validate_and_infer_types(a, attrs)
    ELSE Squeeze_validate_and_infer_types(a, attrs)

\* A constructor call: bind the arguments and the attributes, then
\* constructor_validate_and_infer_types(); a failed check throws.
Construct(k, a, attrs) ==
    LET v == validate_and_infer_types(k, a, attrs)
    IN [status |-> IF v.failed = 0 THEN "ok" ELSE "NodeValidationFailure",
        failed |-> v.failed, kind |-> k, args |-> a, attrs |-> attrs,
        output |-> v.output, relevant |-> v.relevant]

NoNode == [status |-> "none", failed |-> 0, kind |-> "none", args |-> <<>>,
           attrs |-> <<>>, output |-> NoOutput, relevant |-> {}]

\* check_new_args_count(this, new_args)
check_new_args_count(node, new_args) == Len(new_args) = Len(node.args)

\* Mutant: PriorBoxClustered's copy passes m_heights and m_widths the wrong
\* way round.
copy_with_new_args_swapped(node, new_args) ==
    IF ~check_new_args_count(node, new_args)
    THEN [status |-> "arity_mismatch", node |-> NoNode, new_args |-> new_args]
    ELSE LET attrs == IF node.kind = "PriorBoxClustered"
                      THEN [node.attrs EXCEPT !.m_widths = node.attrs.m_heights,
                                              !.m_heights = node.attrs.m_widths]
                      ELSE node.attrs
             made == Construct(node.kind, new_args, attrs)
         IN [status |-> made.status, node |-> made, new_args |-> new_args]

\* shared_ptr<Node> copy_with_new_args(const NodeVector& new_args) const:
\* check_new_args_count, then the kind's constructor on new_args and the
\* node's own attributes.
copy_with_new_args(node, new_args) ==
    IF ~check_new_args_count(node, new_args)
    THEN [status |-> "arity_mismatch", node |-> NoNode, new_args |-> new_args]
    ELSE LET made == Construct(node.kind, new_args, node.attrs)
         IN [status |-> made.status, node |-> made, new_args |-> new_args]

NoCopy == [status |-> "none", node |-> NoNode, new_args |-> <<>>]

Requests ==
    {[kind |-> "PriorBoxClustered", args |-> <<l, i>>,
      attrs |-> PriorBoxAttrs(np, Floats(wn, 0), Floats(hn, 10))] :
        l \in LayerShapeArgs, i \in ImageShapeArgs,
        np \in 0..MaxPriors, wn \in 0..MaxPriors, hn \in 0..MaxPriors}
    \cup {[kind |-> "ShapeOf", args |-> <<l>>, attrs |-> <<>>] : l \in LayerShapeArgs}
    \cup {[kind |-> "Squeeze", args |-> <<l>>, attrs |-> [m_axes |-> ax]] :
             l \in ImageShapeArgs, ax \in {{}, {0}}}

\* Replacement argument lists: every length up to one more than the largest arity.
NewArgNodes ==
    {ArgNode(FALSE, "i64", StaticRank(<<2>>), <<>>),
     ArgNode(FALSE, "f32", StaticRank(<<2>>), <<>>),
     ArgNode(TRUE, "i64", StaticRank(<<2>>), <<MaxDim, 1>>)}

NewArgLists == UNION {[1..n -> NewArgNodes] : n \in 0..3}

\* ------------------------------------------------------------------ the pass

CurrentOps == get_ops(args, functions[fi])

\* Mutant: the pass reports that it changed the graph.
run_on_module_result_true == "true"

\* return false;
run_on_module_result == "false"

Init ==
    /\ \E g \in Graphs : \E fs \in ModulesOf(g) :
          /\ args = g.args
          /\ kind = g.kind
          /\ out_type = [n \in DOMAIN g.kind |-> OutTypeOf(g.kind[n])]
          /\ functions = fs
    /\ env \in EnvSettings
    /\ pc = "idle"
    /\ fi = 0
    /\ height_maps = EmptyMap
    /\ processed = {}
    /\ visited = {}
    /\ fake_node_ctr = 0
    /\ m_ss = <<>>
    /\ m_nodes_with_attributes = {}
    /\ dot_file = <<>>
    /\ ret = "none"
    /\ runs = 0
    /\ edge_log = <<>>
    /\ run_start = <<>>
    /\ op_pc = "off"
    /\ op_req = [kind |-> "none", args |-> <<>>, attrs |-> <<>>]
    /\ op_node = NoNode
    /\ op_copy = NoCopy
    /\ sort_pc = "off"
    /\ sort_input = <<>>
    /\ result_list = <<>>
    /\ sort_results = <<>>
    /\ pipeline = <<>>
    /\ mgr_state = "off"
    /\ mgr_i = 0
    /\ mgr_changed = FALSE
    /\ mgr_log = <<>>
    /\ mgr_run = 0
    /\ work = 0

\* A caller invokes run_on_module(functions) on the pass instance.
BeginRun ==
    /\ pc = "idle"
    /\ runs < MaxRuns
    /\ fi' = 1
    /\ pc' = "seed"
    /\ ret' = "none"
    /\ run_start' = Append(run_start, Len(m_ss))
    /\ UNCHANGED <<graph_vars, op_vars, sort_vars, mgr_vars, height_maps, processed, visited, fake_node_ctr, m_ss,
                   m_nodes_with_attributes, dot_file, runs, edge_log>>

\* The map a node starts with: itself at 0 for a Result, empty otherwise.
InitialHeightMap(kd, n) == IF kd[n] = "Result" THEN HeightMap({n}) ELSE EmptyMap

\* The loop over f->get_ops() that fills height_maps for the function.
SeedHeights ==
    /\ pc = "seed"
    /\ height_maps' = [n \in CurrentOps |-> InitialHeightMap(kind, n)]
    /\ processed' = {}
    /\ pc' = "heights"
    /\ UNCHANGED <<graph_vars, op_vars, sort_vars, mgr_vars, fi, visited, fake_node_ctr, m_ss,
                   m_nodes_with_attributes, dot_file, ret, runs, edge_log, run_start>>

\* topological_sort(f->get_ops()) reversed: the next node is one whose users
\* among the function's nodes have all been handled.
NextInReverseTopologicalOrder(n) ==
    /\ n \in CurrentOps \ processed
    /\ Users(args, n) \cap CurrentOps \subseteq processed

\* Mutant: nodes.reverse() is left out, the loop runs arguments first.
AbsorbNode_unreversed(n) ==
    /\ pc = "heights"
    /\ n \in CurrentOps \ processed
    /\ ArgsOf(args, {n}) \subseteq processed
    /\ height_maps' = AbsorbTargets(height_maps, n, TargetInputs(args, n))
    /\ processed' = processed \cup {n}
    /\ UNCHANGED <<graph_vars, op_vars, sort_vars, mgr_vars, pc, fi, visited, fake_node_ctr,
                   m_ss, m_nodes_with_attributes, dot_file, ret, runs, edge_log, run_start>>

\* One iteration of the loop over the reversed order.
AbsorbNode(n) ==
    /\ pc = "heights"
    /\ NextInReverseTopologicalOrder(n)
    /\ height_maps' = AbsorbTargets(height_maps, n, TargetInputs(args, n))
    /\ processed' = processed \cup {n}
    /\ UNCHANGED <<graph_vars, op_vars, sort_vars, mgr_vars, pc, fi, visited, fake_node_ctr, m_ss,
                   m_nodes_with_attributes, dot_file, ret, runs, edge_log, run_start>>

\* The height loop is over: size_t fake_node_ctr = 0; traverse_nodes starts.
BeginTraverse ==
    /\ pc = "heights"
    /\ processed = CurrentOps
    /\ fake_node_ctr' = 0
    /\ visited' = {}
    /\ pc' = "traverse"
    /\ UNCHANGED <<graph_vars, op_vars, sort_vars, mgr_vars, fi, height_maps, processed, m_ss,
                   m_nodes_with_attributes, dot_file, ret, runs, edge_log, run_start>>

\* traverse_nodes calls the lambda once on every node of the function; the
\* order modelled is results first (descending construction order).
NextToVisit == SetMax(CurrentOps \ visited)

VisitNode ==
    /\ pc = "traverse"
    /\ CurrentOps \ visited # {}
    /\ LET node == NextToVisit
           st == VisitArgs(args, kind, env, height_maps, node, 1,
                           [ss |-> m_ss, nwa |-> m_nodes_with_attributes,
                            ctr |-> fake_node_ctr, log |-> edge_log])
       IN /\ m_ss' = st.ss
          /\ m_nodes_with_attributes' = st.nwa
          /\ fake_node_ctr' = st.ctr
          /\ edge_log' = st.log
          /\ visited' = visited \cup {node}
    \* height_maps[arg] and height_maps[node] insert nothing: both are keys already.
    /\ UNCHANGED <<graph_vars, op_vars, sort_vars, mgr_vars, pc, fi, height_maps, processed, dot_file, ret, runs,
                   run_start>>

\* The lambda has seen every node: on to the next function, or out of the loop.
EndTraverse ==
    /\ pc = "traverse"
    /\ visited = CurrentOps
    /\ IF fi < Len(functions)
       THEN fi' = fi + 1 /\ pc' = "seed"
       ELSE fi' = fi /\ pc' = "render"
    /\ UNCHANGED <<graph_vars, op_vars, sort_vars, mgr_vars, height_maps, processed, visited, fake_node_ctr, m_ss,
                   m_nodes_with_attributes, dot_file, ret, runs, edge_log, run_start>>

\* render(): the dot file gets everything m_ss holds (the stream is taken to
\* open); then return false.
Render ==
    /\ pc = "render"
    /\ dot_file' = m_ss
    /\ ret' = run_on_module_result
    /\ runs' = runs + 1
    /\ pc' = "idle"
    /\ UNCHANGED <<graph_vars, op_vars, sort_vars, mgr_vars, fi, height_maps, processed, visited, fake_node_ctr,
                   m_ss, m_nodes_with_attributes, edge_log, run_start>>

Next ==
    \/ BeginRun
    \/ SeedHeights
    \/ \E n \in DOMAIN args : AbsorbNode(n)
    \/ BeginTraverse
    \/ VisitNode
    \/ EndTraverse
    \/ Render

Spec == Init /\ [][Next]_vars

\* ------------------------------------------------------------------ node construction

\* A builder is about to construct one node; the pass is not involved.
InitOp ==
    /\ args = <<>>
    /\ kind = <<>>
    /\ out_type = <<>>
    /\ functions = <<>>
    /\ env = "none"
    /\ pc = "off"
    /\ fi = 0
    /\ height_maps = EmptyMap
    /\ processed = {}
    /\ visited = {}
    /\ fake_node_ctr = 0
    /\ m_ss = <<>>
    /\ m_nodes_with_attributes = {}
    /\ dot_file = <<>>
    /\ ret = "none"
    /\ runs = 0
    /\ edge_log = <<>>
    /\ run_start = <<>>
    /\ op_pc = "new"
    /\ op_req \in Requests
    /\ op_node = NoNode
    /\ op_copy = NoCopy
    /\ sort_pc = "off"
    /\ sort_input = <<>>
    /\ result_list = <<>>
    /\ sort_results = <<>>
    /\ pipeline = <<>>
    /\ mgr_state = "off"
    /\ mgr_i = 0
    /\ mgr_changed = FALSE
    /\ mgr_log = <<>>
    /\ mgr_run = 0
    /\ work = 0

\* The constructor runs.
ConstructNode ==
    /\ op_pc = "new"
    /\ op_node' = Construct(op_req.kind, op_req.args, op_req.attrs)
    /\ op_pc' = "built"
    /\ UNCHANGED <<graph_vars, pass_vars, sort_vars, mgr_vars, op_req, op_copy>>

\* copy_with_new_args is called on the constructed node.
CopyWithNewArgs(new_args) ==
    /\ op_pc = "built"
    /\ op_node.status = "ok"
    /\ op_copy' = copy_with_new_args(op_node, new_args)
    /\ op_pc' = "copied"
    /\ UNCHANGED <<graph_vars, pass_vars, sort_vars, mgr_vars, op_req, op_node>>

NextOp ==
    \/ ConstructNode
    \/ \E new_args \in NewArgLists : CopyWithNewArgs(new_args)

SpecOp == InitOp /\ [][NextOp]_vars

\* ------------------------------------------------------------------ dependency order

\* Number of nodes of the graphs handed to topological_sort on their own.
SortNodes == 3

\* Every order the elements of S can be inserted in.
RECURSIVE Orders(_)
Orders(S) ==
    IF S = {} THEN {<<>>}
    ELSE UNION {{<<x>> \o o : o \in Orders(S \ {x})} : x \in S}

\* Every argument of every node was constructed before the node.
ConstructionOrdered(a) == \A m \in DOMAIN a : \A i \in DOMAIN a[m] : a[m][i] < m

\* Some node is reachable from itself along argument edges.
HasCycle(a) == \E n \in DOMAIN a : n \in ArgClosure(a, ArgsOf(a, {n}))

\* Mutant: a node counts as ready as soon as its first argument is placed.
Independent_first_arg(a, nodes, result) ==
    {i \in DOMAIN nodes :
        /\ nodes[i] \notin Range(result)
        /\ (a[nodes[i]] # <<>> => a[nodes[i]][1] \in Range(result))}

\* The positions of the nodes not placed yet whose arguments are all placed.
Independent(a, nodes, result) ==
    {i \in DOMAIN nodes :
        /\ nodes[i] \notin Range(result)
        /\ ArgsOf(a, {nodes[i]}) \subseteq Range(result)}

\* Mutant: whatever was placed is returned.
sort_complete_unchecked(nodes, result) == Len(result) <= Len(nodes)

\* The order holds every node: no node was left waiting on a cycle.
sort_complete(nodes, result) == Len(result) = Len(nodes)

\* The height loop of run_on_module over the reversed order, last node first.
RECURSIVE HeightLoop(_, _, _, _)
HeightLoop(hm, a, nodes, i) ==
    IF i = 0 THEN hm
    ELSE HeightLoop(AbsorbTargets(hm, nodes[i], TargetInputs(a, nodes[i])),
                    a, nodes, i - 1)

\* A graph as its builder left it, and the order its nodes are listed in.
InitSort ==
    /\ \E g \in SmallGraphs(SortNodes) :
          /\ args = g.args
          /\ kind = g.kind
          /\ out_type = [n \in DOMAIN g.kind |-> OutTypeOf(g.kind[n])]
          /\ sort_input \in Orders(DOMAIN g.args)
    /\ functions = <<>>
    /\ env = "none"
    /\ pc = "off"
    /\ fi = 0
    /\ height_maps = EmptyMap
    /\ processed = {}
    /\ visited = {}
    /\ fake_node_ctr = 0
    /\ m_ss = <<>>
    /\ m_nodes_with_attributes = {}
    /\ dot_file = <<>>
    /\ ret = "none"
    /\ runs = 0
    /\ edge_log = <<>>
    /\ run_start = <<>>
    /\ op_pc = "off"
    /\ op_req = [kind |-> "none", args |-> <<>>, attrs |-> <<>>]
    /\ op_node = NoNode
    /\ op_copy = NoCopy
    /\ sort_pc = "idle"
    /\ result_list = <<>>
    /\ sort_results = <<>>
    /\ pipeline = <<>>
    /\ mgr_state = "off"
    /\ mgr_i = 0
    /\ mgr_changed = FALSE
    /\ mgr_log = <<>>
    /\ mgr_run = 0
    /\ work = 0

\* A rewrite redirects input i of node m to node n; nothing checks for a cycle.
SetArgument(m, i, n) ==
    /\ sort_pc = "idle"
    /\ sort_results = <<>>
    /\ ConstructionOrdered(args)
    /\ i \in DOMAIN args[m]
    /\ kind[n] # "Result"
    /\ args[m][i] # n
    /\ args' = [args EXCEPT ![m][i] = n]
    /\ UNCHANGED <<kind, out_type, functions, env, pass_vars, op_vars, sort_vars, mgr_vars>>

\* topological_sort(nodes) is called.
BeginSort ==
    /\ sort_pc \in {"idle", "analysed"}
    /\ Len(sort_results) < MaxRuns
    /\ result_list' = <<>>
    /\ sort_pc' = "sorting"
    /\ UNCHANGED <<graph_vars, pass_vars, op_vars, mgr_vars, sort_input, sort_results>>

\* The first node in insertion order whose arguments are all placed is placed.
SortStep ==
    /\ sort_pc = "sorting"
    /\ Independent(args, sort_input, result_list) # {}
    /\ result_list' = Append(result_list,
                             sort_input[SetMin(Independent(args, sort_input, result_list))])
    /\ UNCHANGED <<graph_vars, pass_vars, op_vars, mgr_vars, sort_pc, sort_input, sort_results>>

\* No node is ready any more: the order is returned if it is complete, and a
\* cycle is a fatal invariant violation.
SortCheck ==
    /\ sort_pc = "sorting"
    /\ Independent(args, sort_input, result_list) = {}
    /\ IF sort_complete(sort_input, result_list)
       THEN /\ sort_pc' = "returned"
            /\ sort_results' = Append(sort_results, result_list)
       ELSE /\ sort_pc' = "fatal"
            /\ sort_results' = sort_results
    /\ UNCHANGED <<graph_vars, pass_vars, op_vars, mgr_vars, sort_input, result_list>>

\* nodes.reverse() and the height loop over the returned order.
HeightAnalysis ==
    /\ sort_pc = "returned"
    /\ height_maps' = HeightLoop([n \in Range(result_list) |-> InitialHeightMap(kind, n)],
                                 args, result_list, Len(result_list))
    /\ processed' = Range(result_list)
    /\ sort_pc' = "analysed"
    /\ UNCHANGED <<graph_vars, op_vars, mgr_vars, sort_input, result_list, sort_results,
                   pc, fi, visited, fake_node_ctr, m_ss, m_nodes_with_attributes,
                   dot_file, ret, runs, edge_log, run_start>>

NextSort ==
    \/ \E m \in DOMAIN args : \E i \in 1..SortNodes : \E n \in DOMAIN args :
          SetArgument(m, i, n)
    \/ BeginSort
    \/ SortStep
    \/ SortCheck
    \/ HeightAnalysis

SpecSort == InitSort /\ [][NextSort]_vars

\* ------------------------------------------------------------------ the orchestrator

\* Longest configured pass pipeline.
MaxPasses == 3
\* Most rewrites a graph admits before no rewriting pass applies any more.
MaxWork == 2

\* A finite rewrite system reaches its fixed point within this many runs.
MaxIterations == MaxWork + 1

\* The passes of a pipeline: the visualizer, a pass that applies one rewrite
\* when one applies, and a pass whose validation fails.
PassKinds == {"VisualizeTree", "Rewrite", "Failing"}

Pipelines == UNION {[1..n -> PassKinds] : n \in 1..MaxPasses}

\* What running a pass gives the orchestrator: the bool its run_on_* method
\* returns ("true": it changed the graph), or an exception.
PassOutcome(k, w) ==
    IF k = "VisualizeTree" THEN run_on_module_result
    ELSE IF k = "Rewrite" THEN (IF w > 0 THEN "true" ELSE "false")
    ELSE "throws"

\* The pass running in state Running(mgr_i).
RunningPass == pipeline[mgr_i + 1]

\* Mutant: the orchestrator skips the pass after the one that returned.
NextPassIndex_skip(i) == i + 2

\* The pass the orchestrator runs after pass i.
NextPassIndex(i) == i + 1

InitMgr ==
    /\ args = <<>>
    /\ kind = <<>>
    /\ out_type = <<>>
    /\ functions = <<>>
    /\ env = "none"
    /\ pc = "off"
    /\ fi = 0
    /\ height_maps = EmptyMap
    /\ processed = {}
    /\ visited = {}
    /\ fake_node_ctr = 0
    /\ m_ss = <<>>
    /\ m_nodes_with_attributes = {}
    /\ dot_file = <<>>
    /\ ret = "none"
    /\ runs = 0
    /\ edge_log = <<>>
    /\ run_start = <<>>
    /\ op_pc = "off"
    /\ op_req = [kind |-> "none", args |-> <<>>, attrs |-> <<>>]
    /\ op_node = NoNode
    /\ op_copy = NoCopy
    /\ sort_pc = "off"
    /\ sort_input = <<>>
    /\ result_list = <<>>
    /\ sort_results = <<>>
    /\ pipeline \in Pipelines
    /\ mgr_state = "Idle"
    /\ mgr_i = 0
    /\ mgr_changed = FALSE
    /\ mgr_log = <<>>
    /\ mgr_run = 1
    /\ work \in 0..MaxWork

\* Idle -> Running(pass 0)
StartRun ==
    /\ mgr_state = "Idle"
    /\ mgr_state' = "Running"
    /\ mgr_i' = 0
    /\ mgr_log' = <<0>>
    /\ UNCHANGED <<graph_vars, pass_vars, op_vars, sort_vars, pipeline, mgr_changed,
                   mgr_run, work>>

\* The running pass returns: Running(pass i) -> Running(pass i+1), or
\* Running(last pass) -> Done; its return value is kept.
PassReturns ==
    /\ mgr_state = "Running"
    /\ PassOutcome(RunningPass, work) # "throws"
    /\ mgr_changed' = (mgr_changed \/ PassOutcome(RunningPass, work) = "true")
    /\ work' = IF RunningPass = "Rewrite" /\ work > 0 THEN work - 1 ELSE work
    /\ IF NextPassIndex(mgr_i) < Len(pipeline)
       THEN /\ mgr_state' = "Running"
            /\ mgr_i' = NextPassIndex(mgr_i)
            /\ mgr_log' = Append(mgr_log, NextPassIndex(mgr_i))
       ELSE /\ mgr_state' = "Done"
            /\ mgr_i' = mgr_i
            /\ mgr_log' = mgr_log
    /\ UNCHANGED <<graph_vars, pass_vars, op_vars, sort_vars, pipeline, mgr_run>>

\* The running pass fails: Running -> Aborted.
PassFails ==
    /\ mgr_state = "Running"
    /\ PassOutcome(RunningPass, work) = "throws"
    /\ mgr_state' = "Aborted"
    /\ UNCHANGED <<graph_vars, pass_vars, op_vars, sort_vars, pipeline, mgr_i, mgr_changed,
                   mgr_log, mgr_run, work>>

\* The fixed-point policy: a run in which some pass returned true is followed
\* by another run of the same pipeline.
Rerun ==
    /\ mgr_state = "Done"
    /\ mgr_changed
    /\ mgr_run < MaxIterations
    /\ mgr_state' = "Idle"
    /\ mgr_i' = 0
    /\ mgr_changed' = FALSE
    /\ mgr_log' = <<>>
    /\ mgr_run' = mgr_run + 1
    /\ UNCHANGED <<graph_vars, pass_vars, op_vars, sort_vars, pipeline, work>>

NextMgr ==
    \/ StartRun
    \/ PassReturns
    \/ PassFails
    \/ Rerun

\* Passes run synchronously, one after the other: a run that can take a step
\* takes it.
SpecMgr == InitMgr /\ [][NextMgr]_vars /\ WF_vars(NextMgr)

\* ------------------------------------------------------------------ claims

\* The height pass of the current function is over.
HeightsDone == pc = "traverse" \/ (pc = "heights" /\ processed = CurrentOps)

AllResults == {n \in DOMAIN kind : kind[n] = "Result"}

\* Nodes 1..4 are the single path A -> B -> C -> D, D a Result.
SinglePath ==
    /\ Len(args) >= 4
    /\ SubSeq(args, 1, 4) = << <<>>, <<1>>, <<2>>, <<3>> >>
    /\ kind[4] = "Result"

\* For every node from n down to 1, the number of edges on the longest path
\* from it to r along user edges, -1 if there is none; acc holds the nodes
\* above n (a node's users are constructed after it).
RECURSIVE LongestPathsFrom(_, _, _, _)
LongestPathsFrom(a, r, n, acc) ==
    IF n = 0 THEN acc
    ELSE LET via == {acc[m] : m \in Users(a, n)} \ {-1}
             len == IF n = r THEN 0
                    ELSE IF via = {} THEN -1 ELSE SetMax(via) + 1
         IN LongestPathsFrom(a, r, n - 1, (n :> len) @@ acc)

LongestPaths(a, r) == LongestPathsFrom(a, r, Len(a), <<>>)

JumpDistance(n_map, m_map) ==
    LET diffs == {Abs(n_map[r] - m_map[r]) : r \in DOMAIN n_map \cap DOMAIN m_map}
    IN IF diffs = {} THEN 0 ELSE SetMax(diffs)

\* The entries of the edge log that belong to the function whose height maps
\* are in height_maps.
CurrentEdges == {i \in DOMAIN edge_log : edge_log[i].dst \in CurrentOps}

\* C2: the jump distance max_jump_to gives for a node and one of its
\* dependents - the one the pass computed for each argument edge it visited,
\* and the one of any node with a height map and any of its users - is the
\* largest absolute difference of the two nodes' heights over the sinks both
\* maps hold, 0 when they share none, and never negative; for the edge A -> B
\* of the single path it is 1.
C2_JumpDistance ==
    pc \in {"traverse", "render"} =>
        /\ \A i \in CurrentEdges :
              LET e == edge_log[i]
              IN /\ e.jump_distance =
                       JumpDistance(height_maps[e.src], height_maps[e.dst])
                 /\ e.jump_distance >= 0
                 /\ (SinglePath /\ e.src = 1 /\ e.dst = 2) => e.jump_distance = 1
        /\ \A n \in DOMAIN height_maps :
              \A m \in Users(args, n) \cap DOMAIN height_maps :
                 /\ max_jump_to(height_maps[n], height_maps[m]) =
                       JumpDistance(height_maps[n], height_maps[m])
                 /\ max_jump_to(height_maps[n], height_maps[m]) >= 0

\* The pass has visited an edge between two nodes that share a sink, with a
\* jump distance above 1.
C2_Witness ==
    /\ pc = "render"
    /\ \E i \in CurrentEdges :
          /\ edge_log[i].jump_distance > 1
          /\ DOMAIN height_maps[edge_log[i].src]
                \cap DOMAIN height_maps[edge_log[i].dst] # {}

\* A node that reaches a sink has a user that reaches none: distance 0.
C2_WitnessNoSharedSink ==
    /\ pc = "render"
    /\ \E n \in DOMAIN height_maps :
          /\ DOMAIN height_maps[n] # {}
          /\ \E m \in Users(args, n) \cap DOMAIN height_maps :
                /\ DOMAIN height_maps[m] = {}
                /\ max_jump_to(height_maps[n], height_maps[m]) = 0

\* The maps are seeded and the reverse-topological loop has not started.
BeforeHeightPass == pc = "heights" /\ processed = {}

EdgeLinesOf(e) == {l \in Range(e.lines) : l.t = "edge"}

\* The edge was emitted as src -> SEND_k and RECV_k -> dst, and not directly.
EmittedAsCut(e) ==
    /\ \E k \in 0..Len(edge_log) :
          /\ \E l \in EdgeLinesOf(e) :
                l.src = get_name(e.src) /\ l.dst = FakeName("SEND", k)
          /\ \E l \in EdgeLinesOf(e) :
                l.src = FakeName("RECV", k) /\ l.dst = get_name(e.dst)
    /\ \A l \in EdgeLinesOf(e) :
          ~(l.src = get_name(e.src) /\ l.dst = get_name(e.dst))

\* One of the edge's lines names a Send or a Receive node.
EmittedWithSendRecv(e) ==
    \E l \in Range(e.lines) : l.src[1] \in {"SEND", "RECV"} \/ l.dst[1] \in {"SEND", "RECV"}

\* The edge was emitted as CLONE_k -> dst only.
EmittedAsClone(e) ==
    \A l \in EdgeLinesOf(e) : l.src[1] = "CLONE" /\ l.dst = get_name(e.dst)

\* Every line the edge produced is in the pass's output.
InOutput(e) == Range(e.lines) \subseteq Range(m_ss)

\* C4 as stated: every visited argument edge with a jump distance above 20 is
\* emitted as a Send/Receive pair and not directly, and no edge with a jump
\* distance of at most 20 is.
C4_Original ==
    \A i \in DOMAIN edge_log :
        LET e == edge_log[i]
        IN IF e.jump_distance > max_jump_distance
           THEN EmittedAsCut(e)
           ELSE ~EmittedWithSendRecv(e)

\* C4 amended: a visited argument edge whose source is neither a Constant nor
\* a Parameter is emitted as a Send/Receive pair, and not directly, exactly
\* when its jump distance is above 20; an edge whose source is a Constant or a
\* Parameter is emitted as CLONE_k -> m whatever its jump distance.
C4_CutUnlessFloated ==
    \A i \in DOMAIN edge_log :
        LET e == edge_log[i]
        IN /\ InOutput(e)
           /\ IF kind[e.src] \in {"Constant", "Parameter"}
              THEN EmittedAsClone(e) /\ ~EmittedWithSendRecv(e)
              ELSE IF e.jump_distance > max_jump_distance
              THEN EmittedAsCut(e)
              ELSE ~EmittedWithSendRecv(e)

\* An edge from an Op at distance 21 was cut, one at distance 20 was not, and
\* an edge from a Parameter at a distance above 20 was cloned.
C4_Witness ==
    \/ \E i \in DOMAIN edge_log :
          /\ kind[edge_log[i].src] = "Op"
          /\ edge_log[i].jump_distance = max_jump_distance + 1
          /\ EmittedAsCut(edge_log[i])
          /\ \E j \in DOMAIN edge_log :
                /\ kind[edge_log[j].src] = "Op"
                /\ edge_log[j].jump_distance = 1
                /\ ~EmittedWithSendRecv(edge_log[j])

\* C5: no step of run_on_module changes the graph it reads (the nodes, their
\* argument lists and so their user sets, the outputs' types and shapes, the
\* functions of the module), and the call returns false.
C5_GraphUntouched ==
    [][/\ UNCHANGED <<args, kind, out_type, functions>>
       /\ pc = "render" => ret' = "false"]_vars

\* A call that visited edges and emitted lines has returned.
C5_Witness ==
    /\ pc = "idle"
    /\ runs >= 1
    /\ ret = "false"
    /\ m_ss # <<>>
    /\ dot_file = m_ss

\* The lines the k-th call appended to m_ss.
LinesOfRun(k) ==
    SubSeq(m_ss, run_start[k] + 1,
           IF k < Len(run_start) THEN run_start[k + 1] ELSE Len(m_ss))

\* C6: a second call on the same pass instance and the same unchanged module
\* emits exactly the lines the first call emitted.
C6_SecondRunSame ==
    (pc = "idle" /\ runs >= 2) => LinesOfRun(2) = LinesOfRun(1)

\* A PriorBoxClustered node whose construction passed validation.
IsPriorBox(n) == n.status = "ok" /\ n.kind = "PriorBoxClustered"

\* The claim of C7 about one node.
PriorBoxStaticShape(n) ==
    (IsPriorBox(n) /\ n.args[1].is_const) =>
        LET H == n.args[1].data[1]
            W == n.args[1].data[2]
        IN /\ Len(n.args[1].data) = 2
           /\ n.output.set
           /\ n.output.et = "f32"
           /\ n.output.pshape.rank_static
           /\ n.output.pshape.dims = <<2, 4 * H * W * n.attrs.m_num_priors>>
           /\ (H = 3 /\ W = 4 /\ n.attrs.m_num_priors = 5) =>
                 n.output.pshape.dims = <<2, 240>>

\* C7: a PriorBoxClustered that passed validation and whose first argument is
\* a Constant holding [H, W] has output 0 of type f32 and of the static shape
\* {2, 4*H*W*num_priors}, whatever its second argument is; [3, 4] with 5
\* priors gives {2, 240}.
C7_StaticShapeFromConstant ==
    /\ PriorBoxStaticShape(op_node)
    /\ PriorBoxStaticShape(op_copy.node)

\* Constant [3, 4] with num_priors = 5 and an image shape that is no Constant
\* was constructed.
C7_Witness ==
    /\ IsPriorBox(op_node)
    /\ op_node.args[1].is_const
    /\ op_node.args[1].data = <<3, 4>>
    /\ ~op_node.args[2].is_const
    /\ op_node.attrs.m_num_priors = 5
    /\ op_node.output.pshape.dims = <<2, 240>>

\* C8 as stated: a PriorBoxClustered that passed validation and whose first
\* argument is no Constant has output 0 of type f32 and of rank 2 with both
\* dimensions dynamic.
C8_Original ==
    (IsPriorBox(op_node) /\ ~op_node.args[1].is_const) =>
        /\ op_node.output.set
        /\ op_node.output.et = "f32"
        /\ op_node.output.pshape.rank_static
        /\ op_node.output.pshape.dims = <<-1, -1>>

\* The amended claim of C8 about one node.
PriorBoxDynamicShape(n) ==
    (IsPriorBox(n) /\ ~n.args[1].is_const) =>
        /\ n.output.set
        /\ n.output.et = "f32"
        /\ ~n.output.pshape.rank_static
        /\ n.output.pshape.dims = <<>>

\* C8 amended: a PriorBoxClustered that passed validation and whose first
\* argument is no Constant has output 0 of type f32 and of the fully dynamic
\* partial shape: its rank is not known either.
C8_FullyDynamic ==
    /\ PriorBoxDynamicShape(op_node)
    /\ PriorBoxDynamicShape(op_copy.node)

\* A PriorBoxClustered over a non-constant layer shape of static rank 1 was
\* constructed.
C8_Witness ==
    /\ IsPriorBox(op_node)
    /\ ~op_node.args[1].is_const
    /\ op_node.args[1].pshape.rank_static
    /\ op_node.output.set
    /\ ~op_node.output.pshape.rank_static

\* One of the six conditions of C9 holds of the arguments and attributes.
PriorBoxInvalid(a, attrs) ==
    \/ a[1].et \notin {"i64", "dynamic"}
    \/ a[2].et \notin {"i64", "dynamic"}
    \/ (a[1].pshape.rank_static /\ a[2].pshape.rank_static
        /\ Len(a[1].pshape.dims) # Len(a[2].pshape.dims))
    \/ Len(attrs.m_widths) # attrs.m_num_priors
    \/ Len(attrs.m_heights) # attrs.m_num_priors
    \/ (a[1].is_const /\ Len(a[1].data) # 2)

OriginalUnchanged == op_node = Construct(op_req.kind, op_req.args, op_req.attrs)

\* C10 as stated: copy_with_new_args with a list of the wrong length fails
\* with an arity mismatch, constructs nothing and leaves the node as it was;
\* with a list of the right length it returns a new node of the same kind and
\* attributes bound to the new arguments.
C10_Original ==
    op_pc = "copied" =>
        /\ OriginalUnchanged
        /\ IF Len(op_copy.new_args) # Len(op_node.args)
           THEN op_copy.status = "arity_mismatch" /\ op_copy.node.status = "none"
           ELSE /\ op_copy.status = "ok"
                /\ op_copy.node.kind = op_node.kind
                /\ op_copy.node.attrs = op_node.attrs
                /\ op_copy.node.args = op_copy.new_args

\* C10 amended: copy_with_new_args with a list of the wrong length fails with
\* an arity mismatch, constructs nothing and leaves the node as it was; with a
\* list of the right length it constructs a node of the same kind and
\* attributes over the new arguments, and returns it unless that construction
\* fails validation, which a PriorBoxClustered's does exactly when one of the
\* six conditions holds of the new arguments.
C10_CopyRevalidates ==
    op_pc = "copied" =>
        /\ OriginalUnchanged
        /\ IF Len(op_copy.new_args) # Len(op_node.args)
           THEN op_copy.status = "arity_mismatch" /\ op_copy.node.status = "none"
           ELSE /\ op_copy.node.kind = op_node.kind
                /\ op_copy.node.attrs = op_node.attrs
                /\ op_copy.node.args = op_copy.new_args
                /\ op_copy.status = op_copy.node.status
                /\ IF /\ op_node.kind = "PriorBoxClustered"
                      /\ PriorBoxInvalid(op_copy.new_args, op_node.attrs)
                   THEN op_copy.status = "NodeValidationFailure"
                   ELSE op_copy.status = "ok"

\* A PriorBoxClustered with at least one prior was copied over two arguments
\* the first of which has element type f32: the copy failed validation.
C10_Witness ==
    /\ op_pc = "copied"
    /\ op_node.kind = "PriorBoxClustered"
    /\ op_node.attrs.m_num_priors >= 1
    /\ Len(op_copy.new_args) = 2
    /\ op_copy.new_args[1].et = "f32"
    /\ op_copy.status = "NodeValidationFailure"

\* A copy with a list of the wrong length was refused, for each kind's arity.
C10_WitnessArity ==
    /\ op_pc = "copied"
    /\ op_node.kind = "ShapeOf"
    /\ Len(op_copy.new_args) = 2
    /\ op_copy.status = "arity_mismatch"

\* The position of node n in the order.
PositionIn(order, n) == CHOOSE i \in DOMAIN order : order[i] = n

\* The order holds every node of the graph exactly once.
HoldsEveryNodeOnce(order) ==
    /\ Len(order) = Cardinality(DOMAIN args)
    /\ Range(order) = DOMAIN args

\* Every node comes after each of its arguments.
ArgumentsFirst(order) ==
    \A v \in DOMAIN args : \A u \in ArgsOf(args, {v}) :
        PositionIn(order, u) < PositionIn(order, v)

\* C11: topological_sort on the full node set of an acyclic graph does not
\* fail, and the order it returns holds every node exactly once with every
\* node after all of its arguments; every call on the same graph and the same
\* insertion order returns the same order.
C11_TopologicalOrder ==
    (~HasCycle(args) /\ sort_pc \in {"returned", "fatal", "analysed"}) =>
        /\ sort_pc # "fatal"
        /\ sort_results # <<>>
        /\ \A k \in DOMAIN sort_results :
              /\ HoldsEveryNodeOnce(sort_results[k])
              /\ ArgumentsFirst(sort_results[k])
              /\ sort_results[k] = sort_results[1]

\* Two calls have returned for a graph with an edge, listed with a node ahead
\* of one of its arguments, and with two nodes neither of which reaches the
\* other.
C11_Witness ==
    /\ ~HasCycle(args)
    /\ Len(sort_results) >= 2
    /\ \E v \in DOMAIN args : \E u \in ArgsOf(args, {v}) :
          PositionIn(sort_input, v) < PositionIn(sort_input, u)
    /\ \E u \in DOMAIN args : \E v \in DOMAIN args :
          /\ u # v
          /\ u \notin ArgClosure(args, {v})
          /\ v \notin ArgClosure(args, {u})

\* C12: on a graph with a cycle topological_sort returns no order, neither a
\* complete nor a partial one, and the height analysis never runs: the call
\* ends in the fatal invariant violation.
C12_CycleIsFatal ==
    HasCycle(args) =>
        /\ sort_pc \in {"idle", "sorting", "fatal"}
        /\ sort_results = <<>>
        /\ height_maps = EmptyMap

\* Node A reads node B and B reads A; the sort placed the nodes outside the
\* cycle and then stopped with the violation.
C12_Witness ==
    /\ sort_pc = "fatal"
    /\ result_list # <<>>
    /\ \E A \in DOMAIN args : \E B \in DOMAIN args :
          /\ A # B
          /\ B \in ArgsOf(args, {A})
          /\ A \in ArgsOf(args, {B})

\* C13: within one orchestrator run the state changes only from Idle to
\* Running(pass 0), from Running(pass i) to Running(pass i+1) when pass i
\* returned, from Running(last pass) to Done, and from Running(pass i) to
\* Aborted when pass i failed; the passes started are 0, 1, 2, ... with none
\* skipped or repeated; Aborted and Done are left only by the start of a new
\* run.
C13_OrchestratorTransitions ==
    [][/\ \/ /\ mgr_state = "Idle"
             /\ mgr_state' = "Running" /\ mgr_i' = 0 /\ mgr_run' = mgr_run
          \/ /\ mgr_state = "Running" /\ PassOutcome(RunningPass, work) # "throws"
             /\ mgr_i + 1 < Len(pipeline)
             /\ mgr_state' = "Running" /\ mgr_i' = mgr_i + 1 /\ mgr_run' = mgr_run
          \/ /\ mgr_state = "Running" /\ PassOutcome(RunningPass, work) # "throws"
             /\ mgr_i + 1 = Len(pipeline)
             /\ mgr_state' = "Done" /\ mgr_run' = mgr_run
          \/ /\ mgr_state = "Running" /\ PassOutcome(RunningPass, work) = "throws"
             /\ mgr_state' = "Aborted" /\ mgr_run' = mgr_run
          \/ /\ mgr_state = "Done"
             /\ mgr_state' = "Idle" /\ mgr_run' = mgr_run + 1 /\ mgr_log' = <<>>
       /\ \A j \in DOMAIN mgr_log' : mgr_log'[j] = j - 1
       /\ mgr_state' = "Running" => mgr_log'[Len(mgr_log')] = mgr_i'
       /\ mgr_state' # "Running" => mgr_log' = mgr_log \/ mgr_log' = <<>>]_vars

\* A run started its three passes in order and the third one failed.
C13_Witness ==
    /\ mgr_state = "Aborted"
    /\ mgr_log = <<0, 1, 2>>
    /\ pipeline[3] = "Failing"

\* The fixed-point loop has stopped: the run aborted, or it finished with no
\* pass reporting a change.
Stopped == mgr_state = "Aborted" \/ (mgr_state = "Done" /\ ~mgr_changed)

OnlyVisualizeTree == \A i \in DOMAIN pipeline : pipeline[i] = "VisualizeTree"

\* C14: re-running the pipeline while some pass returns true stops, for a
\* graph that admits finitely many rewrites; a pipeline made only of
\* VisualizeTree, whose run_on_module returns false, stops in its first run.
C14_FixedPointTerminates ==
    /\ <>Stopped
    /\ [](OnlyVisualizeTree => mgr_run = 1)

\* A pipeline holding the visualizer and a rewriting pass reached its fixed
\* point in a later run than the first.
C14_Witness ==
    /\ Stopped
    /\ mgr_state = "Done"
    /\ mgr_run >= 2
    /\ "VisualizeTree" \in Range(pipeline)

\* What node m's map becomes when m absorbs the maps of all its users again.
AbsorbedAgain(m) == MapAt(AbsorbTargets(height_maps, m, TargetInputs(args, m)), m)

\* C15: each step of the height pass handles exactly one node that was not
\* handled before, until every node of the function is; each user m of the
\* node handled is, if it belongs to the function, handled already, and its
\* map already holds whatever the maps of m's own users give, so the map
\* absorbed is m's final one: no later step of the pass on this function
\* changes the map of a handled node or of a user.
C15_ReverseTopologicalPass ==
    [][/\ (pc = "heights" /\ pc' = "heights") =>
             /\ Cardinality(processed' \ processed) = 1
             /\ processed \subseteq processed'
             /\ processed' \subseteq CurrentOps
             /\ \A n \in processed' \ processed : \A m \in Users(args, n) :
                   /\ m \in CurrentOps => m \in processed
                   /\ AbsorbedAgain(m) = MapAt(height_maps, m)
                   /\ MapAt(height_maps', m) = MapAt(height_maps, m)
       /\ (pc \in {"heights", "traverse"} /\ pc' \in {"heights", "traverse"}) =>
             \A m \in processed : height_maps'[m] = height_maps[m]
       /\ (pc = "heights" /\ pc' = "traverse") => processed = CurrentOps]_vars

\* The height pass is over for a function in which a node with two users, one
\* of them with users of its own, got heights above 1.
C15_Witness ==
    /\ pc = "traverse"
    /\ processed = CurrentOps
    /\ \E n \in CurrentOps :
          /\ Cardinality(Users(args, n) \cap CurrentOps) >= 2
          /\ \E m \in Users(args, n) \cap CurrentOps : Users(args, m) \cap CurrentOps # {}
          /\ \E r \in DOMAIN height_maps[n] : height_maps[n][r] >= 2

\* The sinks in the map of node m, a user outside the function having none.
SinksOf(m) == DOMAIN MapAt(height_maps, m)

\* C16: once the height pass is over, for every node n of the function, every
\* user m of n and every sink r in m's map, n's map holds r at a height of at
\* least m's height plus 1, so the jump distance of the edge, also the one the
\* pass computed when it visited it, is at least 1 when m's map holds a sink;
\* and no step of the height pass lowers or removes a recorded height.
C16_HeightsGrowAlongEdges ==
    /\ [](HeightsDone =>
            /\ \A n \in CurrentOps : \A m \in Users(args, n) :
                  /\ \A r \in SinksOf(m) :
                        /\ r \in SinksOf(n)
                        /\ height_maps[n][r] >= height_maps[m][r] + 1
                  /\ SinksOf(m) # {} =>
                        max_jump_to(height_maps[n], MapAt(height_maps, m)) >= 1
            /\ \A i \in CurrentEdges :
                  SinksOf(edge_log[i].dst) # {} => edge_log[i].jump_distance >= 1)
    /\ [][(pc = "heights" /\ pc' = "heights") =>
             \A k \in DOMAIN height_maps : \A r \in DOMAIN height_maps[k] :
                /\ r \in DOMAIN height_maps'[k]
                /\ height_maps'[k][r] >= height_maps[k][r]]_vars

\* The pass visited an edge whose source has a second user closer to the sink
\* and whose jump distance is 1, and an edge with a jump distance above 1.
C16_Witness ==
    /\ pc = "traverse"
    /\ \E i \in CurrentEdges :
          /\ edge_log[i].jump_distance = 1
          /\ Cardinality(Users(args, edge_log[i].src) \cap CurrentOps) >= 2
    /\ \E i \in CurrentEdges :
          /\ edge_log[i].jump_distance > 1
          /\ SinksOf(edge_log[i].dst) # {}

\* The fake node names (CLONE_k, SEND_k, RECV_k) among the lines of an edge.
FakeNamesOf(e) ==
    {l.src : l \in {x \in Range(e.lines) : x.src[1] \in {"CLONE", "SEND", "RECV"}}}
    \cup {l.dst : l \in {x \in Range(e.lines) : x.dst[1] \in {"CLONE", "SEND", "RECV"}}}

\* C17: in one call of run_on_module, over all functions of the module, the
\* fake names of an edge all carry the edge's own counter value, a cloned edge
\* has one name and a cut edge the pair SEND_k, RECV_k, and no fake name is
\* written for two different edges.
C17_FakeNamesUnique ==
    runs = 0 =>
        /\ \A i \in DOMAIN edge_log :
              LET e == edge_log[i]
              IN /\ \A nm \in FakeNamesOf(e) : nm[2] = e.ctr
                 /\ is_floated(kind, e.src) => FakeNamesOf(e) = {FakeName("CLONE", e.ctr)}
                 /\ (~is_floated(kind, e.src) /\ is_long_jump(e.jump_distance)) =>
                       FakeNamesOf(e) = {FakeName("SEND", e.ctr), FakeName("RECV", e.ctr)}
        /\ \A i \in DOMAIN edge_log : \A j \in DOMAIN edge_log :
              i # j => FakeNamesOf(edge_log[i]) \cap FakeNamesOf(edge_log[j]) = {}
====
